---- MODULE Spec2Model ----
(***************************************************************************)
(* A model of the load tester of py_yace: one test started through the web *)
(* front end (app.py: run_load_test, cancel_test) driving one LoadTester   *)
(* (load_tester.py: run, make_request, _init_url_stats).                   *)
(*                                                                         *)
(* The statistics dictionaries are shared by the pool's worker threads     *)
(* without any lock.  Each statement that touches them is a step of its    *)
(* own, and "d[k] += 1" is a read followed by a write, so that the model   *)
(* has every interleaving the interpreter may produce.                     *)
(*                                                                         *)
(* The managers of load_tester.py (URLManager, ProxyManager) are modelled  *)
(* by what their constructors and methods compute; SpecManagers calls the  *)
(* methods directly.  SpecLateFaults is a run in which the rate-limit wait *)
(* can raise and the clock can stand still, SpecRestart a run during which *)
(* a second test is uploaded and started (with the same test_id when it is *)
(* started within the same second), FairSpec a run under a fair scheduler. *)
(***************************************************************************)
EXTENDS Integers, Sequences, FiniteSets, TLC

\* Bounds of the model: the largest request count and pool size explored.
MaxRequests == 2
MaxThreads == 2

\* The longest URL file explored.
MaxLines == 2

\* A URL string is the sequence of its lexical parts: a scheme prefix, host
\* names, a port, the path separator, the comment mark.  NoUrl stands for
\* None and for the empty string, which the code tests alike ("if not url").
NoUrl == << >>

\* The candidate strings a caller may pass as url or write as a line of the
\* URL file.
Candidates ==
    { NoUrl, <<"a">>, <<"b">>, <<"https://", "a">>, <<"http://", "b">>,
      <<"https://">>, <<"/", "a">>, <<":80">> }

\* A comment line of the URL file.
CommentLine == <<"#", "a">>

\* The contents a URL file can have; no file is the file without lines.
RECURSIVE SeqsUpTo(_, _)
SeqsUpTo(S, n) ==
    IF n = 0 THEN { << >> }
    ELSE LET shorter == SeqsUpTo(S, n - 1)
         IN  shorter \cup { Append(q, x) : q \in shorter, x \in S }

UrlFiles == SeqsUpTo(Candidates \cup {CommentLine}, MaxLines)

\* url.startswith(('http://', 'https://')), lines 36 and 282.
StartsWithScheme(url) ==
    url # << >> /\ Head(url) \in {"http://", "https://"}

\* urlparse(url).netloc of a url that starts with a scheme: what stands
\* between the scheme and the first "/" or "#".
Netloc(url) ==
    LET rest == Tail(url)
        stops == { i \in DOMAIN rest : rest[i] \in {"/", "#"} }
        n == IF stops = {} THEN Len(rest)
             ELSE (CHOOSE i \in stops : \A j \in stops : i <= j) - 1
    IN  SubSeq(rest, 1, n)

\* process_url, lines 30-48: NoUrl stands for the None it returns.
process_url(url) ==
    IF url = NoUrl THEN NoUrl
    ELSE LET full == IF StartsWithScheme(url) THEN url
                     ELSE <<"https://">> \o url
         IN  IF Netloc(full) # << >> THEN full ELSE NoUrl

\* The candidates of a list that process_url accepts, processed, in order.
Processed(cands) ==
    LET p == [i \in DOMAIN cands |-> process_url(cands[i])]
    IN  SelectSeq(p, LAMBDA u : u # NoUrl)

\* Lines 60-62: the lines of the file that are neither blank nor comments.
FileCandidates(lines) ==
    SelectSeq(lines, LAMBDA l : l # << >> /\ Head(l) # "#")

\* URLManager.__init__, lines 50-65: self.urls after construction.
URLManagerUrls(url, lines) ==
    Processed(<< url >>) \o Processed(FileCandidates(lines))

\* The constructor arguments <<url, lines of url_file>> of the runs explored:
\* no target, one target, two targets.
UrlInputs ==
    { << NoUrl, << >> >>, << <<"a">>, << >> >>, << <<"a">>, << <<"b">> >> >> }

\* URLManager.urls after construction: the accepted targets, in order.
UrlLists == { URLManagerUrls(p[1], p[2]) : p \in UrlInputs }

\* ProxyManager pools and LoadTester.proxy_type ("" stands for None).
ProxyConfigs ==
    { [http |-> {}, socks5 |-> {}, type |-> ""],
      [http |-> {"h1"}, socks5 |-> {}, type |-> ""],
      [http |-> {}, socks5 |-> {"s1"}, type |-> "http"] }

NoProxy == <<>>

\* The pools of the ProxyManager whose methods are called directly, and the
\* schemes get_random_proxy is called with ("" stands for None).
ProxyPools ==
    { [http |-> h, socks5 |-> s, type |-> ""] :
        h \in {{}, {"h1"}, {"h1", "h2"}}, s \in {{}, {"s1"}} }

Schemes == {"", "http", "socks5"}

\* The ways one issued request can end, as make_request tells them apart.
Outcomes ==
    { "ok200", "http_fail", "invalid_url", "proxy_error", "connect_timeout",
      "ssl_error", "network_error", "other_fault" }

\* The per-target dictionaries of LoadTester, in the order _init_url_stats
\* creates their entries.  response_times and errors hold lists: the model
\* keeps their lengths.
Fields ==
    << "response_times", "success_count", "failure_count", "errors",
       "proxy_errors", "proxy_timeouts", "ssl_errors" >>

VARIABLES
    urls,            \* URLManager.urls
    num_requests,    \* LoadTester.num_requests
    num_threads,     \* LoadTester.num_threads
    proxy_cfg,       \* ProxyManager pools and proxy_type
    setup_fault,     \* the configuration makes the setup of run_load_test raise
    net,             \* the ways the network can end a request during this run
    test_status,     \* test_status[test_id]['status'], "absent" when no entry
    test_cancel_flag,\* test_cancel_flags[test_id]
    test_results,    \* test_id in test_results
    rpc,             \* position of the run_load_test thread
    cancelled_seen,  \* value check_cancel() returned at app.py line 134
    cpc,             \* position of a cancel_test request handler
    stats,           \* the seven statistics dictionaries of the LoadTester
    tasks,           \* the futures list of run(): one record per submitted task
    collected,       \* futures whose result() has been taken in run()
    thread_errors,   \* "thread execution error" lines logged by run()
    end_time,        \* LoadTester.end_time is set
    url_arg,         \* the url argument URLManager was constructed with
    url_file,        \* the lines of the file named by its url_file argument
    ret,             \* the last call of a manager method, with its result
    waits,           \* the ways the rate-limit wait of line 332 can end
    total_times,     \* the values total_time can have at line 412
    rpc2,            \* position of the thread of a second start_test,
                     \* "none" before that request
    cancelled_seen2, \* value check_cancel() returned to that thread
    same_id,         \* the second start_test drew the test_id of the first
    temp_files,      \* the names of the files in TEMP_DIR
    uploaded,        \* the list files create_temp_file has written for the
                     \* second test
    loaded2          \* the list files the managers of the second test read

vars ==
    << urls, num_requests, num_threads, proxy_cfg, setup_fault, net, test_status,
       test_cancel_flag, test_results, rpc, cancelled_seen, cpc, stats, tasks,
       collected, thread_errors, end_time, url_arg, url_file, ret, waits,
       total_times, rpc2, cancelled_seen2, same_id, temp_files, uploaded,
       loaded2 >>

managers == << url_arg, url_file, ret >>
second == << rpc2, cancelled_seen2, same_id, uploaded, loaded2 >>

\* What the thread of the test, its tasks and cancel_test leave alone.
config ==
    << urls, num_requests, num_threads, proxy_cfg, setup_fault, net, waits,
       total_times, managers, second, temp_files >>
app == << test_status, test_cancel_flag, test_results, cancelled_seen, cpc >>

----------------------------------------------------------------------------
\* Helpers on dictionaries and sequences.

Range(s) == { s[i] : i \in DOMAIN s }

\* d[k] = v on a Python dict: creates the key or overwrites its value.
Put(d, k, v) == [x \in (DOMAIN d) \cup {k} |-> IF x = k THEN v ELSE d[x]]

\* The value a reader sees for a counter, 0 when the key does not exist.
Count(f, t) == IF t \in DOMAIN stats[f] THEN stats[f][t] ELSE 0

Targets == UNION { Range(l) : l \in UrlLists }

----------------------------------------------------------------------------
\* ProxyManager

HasProxies(pm) == pm.http # {} \/ pm.socks5 # {}

\* TypedProxy falling back on the other pool when the pool of the scheme
\* that is given is empty.
TypedProxyFallback(pm, type) ==
    IF type = "http" /\ pm.http # {}
    THEN { <<"http://", p>> : p \in pm.http }
    ELSE IF pm.socks5 # {}
    THEN { <<"socks5h://", p>> : p \in pm.socks5 }
    ELSE IF pm.http # {}
    THEN { <<"http://", p>> : p \in pm.http }
    ELSE { NoProxy }

\* The descriptors get_random_proxy can return for a scheme that is given.
TypedProxy(pm, type) ==
    IF type = "http" /\ pm.http # {}
    THEN { <<"http://", p>> : p \in pm.http }
    ELSE IF type = "socks5" /\ pm.socks5 # {}
    THEN { <<"socks5h://", p>> : p \in pm.socks5 }
    ELSE { NoProxy }

\* get_random_proxy(proxy_type): every value the call can return; with no
\* scheme given it picks one of the schemes whose pool is not empty.
GetRandomProxy(pm, type) ==
    IF type # ""
    THEN TypedProxy(pm, type)
    ELSE IF HasProxies(pm)
    THEN UNION { TypedProxy(pm, t) :
                  t \in { x \in {"http", "socks5"} : pm[x] # {} } }
    ELSE { NoProxy }

\* make_request, lines 272-278: the proxies a request can be issued with.
RequestProxies(pm, type) ==
    IF HasProxies(pm) THEN GetRandomProxy(pm, type) ELSE { NoProxy }

\* The timeout chosen from the manager having proxies, whatever it returned.
RequestTimeoutOfManager(proxies) ==
    IF HasProxies(proxy_cfg) THEN "proxy_timeout" ELSE "timeout"

\* make_request, lines 273-277: current_timeout, the timeout argument of the
\* request, by the name of the attribute it is taken from.
RequestTimeout(proxies) ==
    IF proxies # NoProxy THEN "proxy_timeout" ELSE "timeout"

----------------------------------------------------------------------------
\* make_request: what a task does to the statistics once its request ended.

Inc(f) == << <<"read", f>>, <<"write", f>> >>

\* The statements that record an outcome, in program order.  A counter
\* increment is a read and a write; a list append is one step.
RecordPlan(outcome, proxies) ==
    CASE outcome = "ok200" ->
            << <<"append", "response_times">> >> \o Inc("success_count")
      [] outcome = "http_fail" ->
            << <<"append", "response_times">> >> \o Inc("failure_count")
                \o << <<"append", "errors">> >>
      [] outcome = "proxy_error" ->
            Inc("failure_count") \o Inc("proxy_errors")
                \o << <<"append", "errors">> >>
      [] outcome = "connect_timeout" ->
            Inc("failure_count")
                \o (IF proxies # NoProxy THEN Inc("proxy_timeouts") ELSE << >>)
                \o << <<"append", "errors">> >>
      [] outcome = "ssl_error" ->
            Inc("failure_count") \o Inc("ssl_errors")
                \o << <<"append", "errors">> >>
      [] OTHER ->
            Inc("failure_count") \o << <<"append", "errors">> >>

\* Where the recording statements of an outcome stand: inside the outer try
\* block (lines 267-332, the InvalidURL handler included), or in one of the
\* outer except clauses (lines 334-380).
RecordedIn(outcome) ==
    IF outcome \in {"ok200", "http_fail", "invalid_url"} THEN "try" ELSE "except"

Finished == {"done", "skipped", "noop", "faulted"}

\* A task as executor.submit leaves it.  late is history: the cancellation
\* flag was already set when the task was submitted.  wait is history too:
\* "returned" or "raised" once the task has executed the rate-limit
\* statement of lines 329-332, "none" before that and when it never does.
NewTask(late) ==
    [ pc |-> "queued", url |-> NoUrl, k |-> 0, proxies |-> NoProxy,
      timeout |-> "none", outcome |-> "none", ops |-> << >>, where |-> "try",
      tmp |-> 0, cnt |-> 0, wait |-> "none", late |-> late ]

\* Running with worker threads that are never handed back to the pool.
RunningNeverFreed == { i \in DOMAIN tasks : tasks[i].pc # "queued" }

\* The tasks a worker thread of the pool is executing.
Running == { i \in DOMAIN tasks : tasks[i].pc \notin Finished \cup {"queued"} }

----------------------------------------------------------------------------
\* The state after start_test has created the test and before its thread ran.

EmptyDict == [x \in {} |-> 0]

\* No manager method has been called.
NoCall == [op |-> "none", arg |-> "", val |-> << >>]

Started ==
    /\ num_requests \in 0..MaxRequests
    /\ num_threads \in 0..MaxThreads
    /\ test_status = "absent"
    /\ test_cancel_flag = FALSE
    /\ test_results = FALSE
    /\ rpc = "setup"
    /\ cancelled_seen = FALSE
    /\ cpc = "idle"
    /\ stats = [f \in Range(Fields) |-> EmptyDict]
    /\ tasks = << >>
    /\ collected = 0
    /\ thread_errors = 0
    /\ end_time = FALSE
    /\ ret = NoCall
    /\ rpc2 = "none"
    /\ cancelled_seen2 = FALSE
    /\ same_id = FALSE
    /\ temp_files = {}
    /\ uploaded = {}
    /\ loaded2 = {}

\* URLManager is constructed from one of the given argument pairs.
Constructed(inputs) ==
    \E p \in inputs :
        /\ url_arg = p[1]
        /\ url_file = p[2]
        /\ urls = URLManagerUrls(p[1], p[2])

\* The wait of line 332 returns and the clock advances during the run.
Calm ==
    /\ waits = {"returns"}
    /\ total_times = {1}

\* Every configuration of a test (no, one or two targets, each proxy
\* configuration, sound or malformed settings), on a network that can end a
\* request in every way.
Init ==
    /\ Started
    /\ Calm
    /\ Constructed(UrlInputs)
    /\ proxy_cfg \in ProxyConfigs
    /\ setup_fault \in BOOLEAN
    /\ net = Outcomes

\* A valid configuration with at most one target and a proxy pool, on a
\* network that answers 200 or times out on connect; the rate-limit wait
\* returns, the clock advances and the test_id is not drawn again.
InitOneTarget ==
    /\ Started
    /\ Calm
    /\ Constructed({ << NoUrl, << >> >>, << <<"a">>, << >> >> })
    /\ proxy_cfg = [http |-> {"h1"}, socks5 |-> {}, type |-> ""]
    /\ setup_fault = FALSE
    /\ net = {"ok200", "connect_timeout"}

----------------------------------------------------------------------------
\* LoadTester.make_request, run by a worker thread of the pool for task i.

\* TaskEntry without the return of line 263: a task that obtained no target
\* goes on to _init_url_stats with it.
TaskEntryNoReturn(i) ==
    /\ i \in DOMAIN tasks
    /\ tasks[i].pc = "queued"
    /\ \A j \in 1..(i - 1) : tasks[j].pc # "queued"
    /\ Cardinality(Running) < num_threads
    /\ \/ /\ test_cancel_flag
          /\ tasks' = [tasks EXCEPT ![i].pc = "skipped"]
       \/ /\ ~test_cancel_flag
          /\ \E u \in IF urls = << >> THEN {NoUrl} ELSE Range(urls) :
                tasks' = [tasks EXCEPT ![i].pc = "init_check", ![i].url = u]
    /\ UNCHANGED << config, app, rpc, stats, collected, thread_errors,
                    end_time >>

\* A worker takes the oldest queued task when the pool has a free thread;
\* the task returns at once when the flag is set (line 257) or when there is
\* no target (line 262), and picks a target otherwise.
TaskEntry(i) ==
    /\ i \in DOMAIN tasks
    /\ tasks[i].pc = "queued"
    /\ \A j \in 1..(i - 1) : tasks[j].pc # "queued"
    /\ Cardinality(Running) < num_threads
    /\ \/ /\ test_cancel_flag
          /\ tasks' = [tasks EXCEPT ![i].pc = "skipped"]
       \/ /\ ~test_cancel_flag
          /\ urls = << >>
          /\ tasks' = [tasks EXCEPT ![i].pc = "noop"]
       \/ /\ ~test_cancel_flag
          /\ \E u \in Range(urls) :
                tasks' = [tasks EXCEPT ![i].pc = "init_check", ![i].url = u]
    /\ UNCHANGED << config, app, rpc, stats, collected, thread_errors,
                    end_time >>

\* _init_url_stats, line 222: the membership test.
InitCheck(i) ==
    /\ i \in DOMAIN tasks
    /\ tasks[i].pc = "init_check"
    /\ \/ /\ tasks[i].url \in DOMAIN stats["response_times"]
          /\ tasks' = [tasks EXCEPT ![i].pc = "request"]
       \/ /\ tasks[i].url \notin DOMAIN stats["response_times"]
          /\ tasks' = [tasks EXCEPT ![i].pc = "init", ![i].k = 1]
    /\ UNCHANGED << config, app, rpc, stats, collected, thread_errors,
                    end_time >>

\* _init_url_stats, lines 223-229: one entry is created (or reset) per step.
InitStore(i) ==
    /\ i \in DOMAIN tasks
    /\ tasks[i].pc = "init"
    /\ stats' = [stats EXCEPT ![Fields[tasks[i].k]] = Put(@, tasks[i].url, 0)]
    /\ tasks' = IF tasks[i].k = Len(Fields)
                THEN [tasks EXCEPT ![i].pc = "request", ![i].k = 0]
                ELSE [tasks EXCEPT ![i].k = @ + 1]
    /\ UNCHANGED << config, app, rpc, collected, thread_errors, end_time >>

\* Lines 267-309: the proxy is chosen and the request is issued; the network
\* decides how it ends.
SendRequest(i) ==
    /\ i \in DOMAIN tasks
    /\ tasks[i].pc = "request"
    /\ \E px \in RequestProxies(proxy_cfg, proxy_cfg.type), o \in net :
          tasks' = [tasks EXCEPT ![i].pc = "record",
                                 ![i].proxies = px,
                                 ![i].timeout = RequestTimeout(px),
                                 ![i].outcome = o,
                                 ![i].ops = RecordPlan(o, px),
                                 ![i].where = RecordedIn(o)]
    /\ UNCHANGED << config, app, rpc, stats, collected, thread_errors,
                    end_time >>

\* The task after the statement at the head of its plan has run.  After
\* the last statement that records a response, the try block goes on to the
\* rate-limit wait (lines 329-332): time.sleep returns, or raises when the
\* interval is beyond its range, and "except Exception" (lines 377-380)
\* catches that and counts a failure.
Advance(t, wait) ==
    IF Len(t.ops) > 1
    THEN [t EXCEPT !.ops = Tail(@), !.tmp = 0]
    ELSE IF t.where = "try" /\ t.outcome \in {"ok200", "http_fail"}
    THEN IF wait = "raises"
         THEN [t EXCEPT !.ops = RecordPlan("other_fault", t.proxies),
                        !.where = "except", !.tmp = 0, !.wait = "raised"]
         ELSE [t EXCEPT !.pc = "done", !.ops = << >>, !.tmp = 0,
                        !.wait = "returned"]
    ELSE [t EXCEPT !.pc = "done", !.ops = << >>, !.tmp = 0]

\* A KeyError raised by a statistics statement: inside the try block it is
\* caught by "except Exception" (lines 377-380), which counts a failure; in
\* an except clause it leaves make_request.
KeyError(t) ==
    IF t.where = "try"
    THEN [t EXCEPT !.ops = RecordPlan("other_fault", t.proxies),
                   !.where = "except", !.tmp = 0]
    ELSE [t EXCEPT !.pc = "faulted", !.ops = << >>, !.tmp = 0]

\* self.<list>[target_url].append(...)
AppendEntry(i) ==
    /\ i \in DOMAIN tasks
    /\ tasks[i].pc = "record"
    /\ Head(tasks[i].ops)[1] = "append"
    /\ LET f == Head(tasks[i].ops)[2]
           u == tasks[i].url
       IN  \/ /\ u \in DOMAIN stats[f]
              /\ stats' = [stats EXCEPT ![f][u] = @ + 1]
              /\ \E w \in waits : tasks' = [tasks EXCEPT ![i] = Advance(@, w)]
           \/ /\ u \notin DOMAIN stats[f]
              /\ tasks' = [tasks EXCEPT ![i] = KeyError(@)]
              /\ UNCHANGED stats
    /\ UNCHANGED << config, app, rpc, collected, thread_errors, end_time >>

\* self.<counter>[target_url] += 1, first half: the current value is read.
ReadCounter(i) ==
    /\ i \in DOMAIN tasks
    /\ tasks[i].pc = "record"
    /\ Head(tasks[i].ops)[1] = "read"
    /\ LET f == Head(tasks[i].ops)[2]
           u == tasks[i].url
       IN  \/ /\ u \in DOMAIN stats[f]
              /\ tasks' = [tasks EXCEPT ![i].ops = Tail(@),
                                        ![i].tmp = stats[f][u]]
           \/ /\ u \notin DOMAIN stats[f]
              /\ tasks' = [tasks EXCEPT ![i] = KeyError(@)]
    /\ UNCHANGED << config, app, rpc, stats, collected, thread_errors,
                    end_time >>

\* self.<counter>[target_url] += 1, second half: the value read plus one is
\* stored.  cnt is history: how often the task has counted its request in
\* success_count or failure_count.
WriteCounter(i) ==
    /\ i \in DOMAIN tasks
    /\ tasks[i].pc = "record"
    /\ Head(tasks[i].ops)[1] = "write"
    /\ LET f == Head(tasks[i].ops)[2]
           u == tasks[i].url
           c == IF f \in {"success_count", "failure_count"} THEN 1 ELSE 0
       IN  /\ stats' = [stats EXCEPT ![f] = Put(@, u, tasks[i].tmp + 1)]
           /\ \E w \in waits :
                 tasks' = [tasks EXCEPT ![i] = [Advance(@, w) EXCEPT !.cnt = @ + c]]
    /\ UNCHANGED << config, app, rpc, collected, thread_errors, end_time >>

MakeRequest(i) ==
    \/ TaskEntry(i)
    \/ InitCheck(i)
    \/ InitStore(i)
    \/ SendRequest(i)
    \/ AppendEntry(i)
    \/ ReadCounter(i)
    \/ WriteCounter(i)

----------------------------------------------------------------------------
\* app.py run_load_test and LoadTester.run, executed by the test's thread.

\* Lines 53-102: paths, managers and the LoadTester are built; a malformed
\* configuration (int() of a non-number, for example) raises here.
Setup ==
    /\ rpc = "setup"
    /\ rpc' = IF setup_fault THEN "except" ELSE "mark_running"
    /\ UNCHANGED << config, test_status, test_cancel_flag, test_results,
                    cancelled_seen, cpc, stats, tasks, collected,
                    thread_errors, end_time >>

\* Lines 105-109.
MarkRunning ==
    /\ rpc = "mark_running"
    /\ test_status' = "running"
    /\ rpc' = "run_start"
    /\ UNCHANGED << config, test_cancel_flag, test_results, cancelled_seen,
                    cpc, stats, tasks, collected, thread_errors, end_time >>

\* run(), lines 384-386: ThreadPoolExecutor raises ValueError unless
\* max_workers is positive.
RunStart ==
    /\ rpc = "run_start"
    /\ rpc' = IF num_threads <= 0 THEN "except" ELSE "submit_check"
    /\ UNCHANGED << config, app, stats, tasks, collected, thread_errors,
                    end_time >>

\* run(), lines 390-392: the loop test and the poll of the flag.
SubmitCheck ==
    /\ rpc = "submit_check"
    /\ rpc' = IF Len(tasks) = num_requests \/ test_cancel_flag
              THEN "collect" ELSE "submit"
    /\ UNCHANGED << config, app, stats, tasks, collected, thread_errors,
                    end_time >>

\* run(), line 393.
Submit ==
    /\ rpc = "submit"
    /\ tasks' = Append(tasks, NewTask(test_cancel_flag))
    /\ rpc' = "submit_check"
    /\ UNCHANGED << config, app, stats, collected, thread_errors, end_time >>

\* CollectResult without the try/except around future.result().
CollectResultUncaught(pc) == IF pc = "faulted" THEN "raised" ELSE "returned"

\* run(), lines 397-400: what taking the result of a finished future does.
CollectResult(pc) == IF pc = "faulted" THEN "logged" ELSE "returned"

\* run(), lines 396-400: future.result() blocks until the task is finished.
\* A fault the try does not catch would leave run() and reach the except
\* clause of run_load_test.
Collect ==
    /\ rpc = "collect"
    /\ collected < Len(tasks)
    /\ tasks[collected + 1].pc \in Finished
    /\ LET r == CollectResult(tasks[collected + 1].pc)
       IN  /\ thread_errors' = IF r = "logged" THEN thread_errors + 1
                               ELSE thread_errors
           /\ rpc' = IF r \in {"logged", "returned"} THEN "collect" ELSE "except"
    /\ collected' = collected + 1
    /\ UNCHANGED << config, app, stats, tasks, end_time >>

\* RunEnd without the wait for the futures: end_time is set while tasks of
\* the pool may still be queued or executing.
RunEndNoWait ==
    /\ rpc = "collect"
    /\ end_time' = TRUE
    /\ rpc' = "save"
    /\ UNCHANGED << config, app, stats, tasks, collected, thread_errors >>

\* print_results, lines 415-441, for a target with n latency samples: a
\* target without samples is skipped; otherwise the statistics are computed,
\* statistics.stdev only for more than one sample, and line 441 divides the
\* number of requests by total_time.
TargetReport(n, total_time) ==
    IF n = 0
    THEN [mean |-> "absent", std_dev |-> "absent", rps |-> "absent"]
    ELSE [mean |-> "computed",
          std_dev |-> IF n > 1 THEN "computed" ELSE "0",
          rps |-> IF total_time = 0 THEN "ZeroDivisionError" ELSE "computed"]

\* print_results raises: a counter of a reported target has no entry (lines
\* 418-427), or the division of line 441 fails.
PrintResultsRaises(total_time) ==
    \E url \in DOMAIN stats["response_times"] :
        /\ stats["response_times"][url] > 0
        /\ \/ \E f \in Range(Fields) : url \notin DOMAIN stats[f]
           \/ TargetReport(stats["response_times"][url], total_time).rps
                  = "ZeroDivisionError"

\* run(), lines 401-405: the pool is shut down, end_time is set and the
\* report is printed; a fault of print_results leaves run() and reaches the
\* except clause of run_load_test.
RunEnd ==
    /\ rpc = "collect"
    /\ collected = Len(tasks)
    /\ end_time' = TRUE
    /\ \E total_time \in total_times :
          rpc' = IF PrintResultsRaises(total_time) THEN "except" ELSE "save"
    /\ UNCHANGED << config, app, stats, tasks, collected, thread_errors >>

\* Lines 120-132.
SaveResults ==
    /\ rpc = "save"
    /\ test_results' = TRUE
    /\ rpc' = "final_check"
    /\ UNCHANGED << config, test_status, test_cancel_flag, cancelled_seen,
                    cpc, stats, tasks, collected, thread_errors, end_time >>

\* Line 134: check_cancel() is evaluated.
FinalCheck ==
    /\ rpc = "final_check"
    /\ cancelled_seen' = test_cancel_flag
    /\ rpc' = "final_write"
    /\ UNCHANGED << config, test_status, test_cancel_flag, test_results, cpc,
                    stats, tasks, collected, thread_errors, end_time >>

\* FinalStatus with the test of line 134 inverted.
FinalStatusInverted(cancelled) == IF cancelled THEN "completed" ELSE "cancelled"

\* Lines 134-139: the status the branch taken writes.
FinalStatus(cancelled) == IF cancelled THEN "cancelled" ELSE "completed"

\* Lines 135-141.
FinalWrite ==
    /\ rpc = "final_write"
    /\ test_status' = FinalStatus(cancelled_seen)
    /\ rpc' = "finally"
    /\ UNCHANGED << config, test_cancel_flag, test_results, cancelled_seen,
                    cpc, stats, tasks, collected, thread_errors, end_time >>

\* Lines 143-147: test_status[test_id]['status'] = 'failed' raises KeyError
\* itself when the test has no status entry yet.
ExceptHandler ==
    /\ rpc = "except"
    /\ test_status' = IF test_status = "absent" THEN "absent" ELSE "failed"
    /\ rpc' = "finally"
    /\ UNCHANGED << config, test_cancel_flag, test_results, cancelled_seen,
                    cpc, stats, tasks, collected, thread_errors, end_time >>

\* cleanup_temp_files, lines 27-31: TEMP_DIR is removed with all it holds
\* and created again.
cleanup_temp_files == temp_files' = {}

\* Lines 148-153.
Finally ==
    /\ rpc = "finally"
    /\ cleanup_temp_files
    /\ rpc' = "exit"
    /\ UNCHANGED << urls, num_requests, num_threads, proxy_cfg, setup_fault,
                    net, waits, total_times, managers, second, app, stats,
                    tasks, collected, thread_errors, end_time >>

----------------------------------------------------------------------------
\* app.py cancel_test, executed by a request handler thread.

\* Line 185: the request is accepted when the test is running; otherwise it
\* is answered with 404 and changes nothing.
CancelCheck ==
    /\ cpc = "idle"
    /\ test_status = "running"
    /\ cpc' = "accepted"
    /\ UNCHANGED << config, test_status, test_cancel_flag, test_results,
                    cancelled_seen, rpc, stats, tasks, collected,
                    thread_errors, end_time >>

\* Lines 186-188.
CancelSet ==
    /\ cpc = "accepted"
    /\ test_cancel_flag' = TRUE
    /\ cpc' = "idle"
    /\ UNCHANGED << config, test_status, test_results, cancelled_seen, rpc,
                    stats, tasks, collected, thread_errors, end_time >>

----------------------------------------------------------------------------
\* The methods of URLManager and ProxyManager, called on managers that were
\* constructed from any of the inputs.  URLManager.current_url, which only
\* the command line reads, is left out.

\* What a call of a manager method leaves alone.
run ==
    << test_status, test_cancel_flag, test_results, rpc, cancelled_seen, cpc,
       stats, tasks, collected, thread_errors, end_time >>

Called(op, arg, val) ==
    /\ ret' = [op |-> op, arg |-> arg, val |-> val]
    /\ UNCHANGED << urls, num_requests, num_threads, proxy_cfg, setup_fault,
                    net, waits, total_times, url_arg, url_file, second,
                    temp_files, run >>

\* URLManager.get_random_url, lines 70-75.
get_random_url ==
    \E u \in (IF urls # << >> THEN Range(urls) ELSE {NoUrl}) :
        Called("get_random_url", "", u)

\* URLManager.has_multiple_urls, lines 81-83.
has_multiple_urls == Called("has_multiple_urls", "", Len(urls) > 1)

\* ProxyManager.get_random_proxy, lines 127-144.
get_random_proxy ==
    \E t \in Schemes : \E px \in GetRandomProxy(proxy_cfg, t) :
        Called("get_random_proxy", t, px)

\* ProxyManager.has_proxies, lines 146-148.
has_proxies == Called("has_proxies", "", HasProxies(proxy_cfg))

\* Managers constructed from every candidate url, every URL file and every
\* pair of pools; no test is started.
InitManagers ==
    /\ Started
    /\ Calm
    /\ Constructed(Candidates \X UrlFiles)
    /\ proxy_cfg \in ProxyPools
    /\ num_requests = 0
    /\ num_threads = 0
    /\ setup_fault = FALSE
    /\ net = Outcomes

ManagerNext ==
    \/ get_random_url
    \/ has_multiple_urls
    \/ get_random_proxy
    \/ has_proxies

SpecManagers == InitManagers /\ [][ManagerNext]_vars

----------------------------------------------------------------------------

Next ==
    \/ Setup
    \/ MarkRunning
    \/ RunStart
    \/ SubmitCheck
    \/ Submit
    \/ Collect
    \/ RunEnd
    \/ SaveResults
    \/ FinalCheck
    \/ FinalWrite
    \/ ExceptHandler
    \/ Finally
    \/ CancelCheck
    \/ CancelSet
    \/ \E i \in 1..MaxRequests : MakeRequest(i)

Spec == Init /\ [][Next]_vars

SpecOneTarget == InitOneTarget /\ [][Next]_vars

\* The steps of the thread that executes run_load_test.
RunThread ==
    \/ Setup
    \/ MarkRunning
    \/ RunStart
    \/ SubmitCheck
    \/ Submit
    \/ Collect
    \/ RunEnd
    \/ SaveResults
    \/ FinalCheck
    \/ FinalWrite
    \/ ExceptHandler
    \/ Finally

\* The scheduler lets the thread of the test and every task of the pool take
\* a step that stays possible, and every request that is issued ends (its
\* timeout bounds it).  Nothing makes a client send a cancel request.
Fairness ==
    /\ WF_vars(RunThread)
    /\ \A i \in 1..MaxRequests : WF_vars(MakeRequest(i))

\* A test with one target and no proxy on a network that answers 200.
InitAnswering ==
    /\ Started
    /\ Calm
    /\ Constructed({ << <<"a">>, << >> >> })
    /\ proxy_cfg = [http |-> {}, socks5 |-> {}, type |-> ""]
    /\ setup_fault = FALSE
    /\ net = {"ok200"}

FairSpec == InitAnswering /\ [][Next]_vars /\ Fairness

\* A test with no or one target and each proxy configuration (no manager,
\* a pool get_random_proxy draws from, a pool of the other scheme than the
\* preferred one) on a network that answers 200.
InitProxied ==
    /\ Started
    /\ Calm
    /\ Constructed({ << NoUrl, << >> >>, << <<"a">>, << >> >> })
    /\ proxy_cfg \in ProxyConfigs
    /\ setup_fault = FALSE
    /\ net = {"ok200"}

SpecProxied == InitProxied /\ [][Next]_vars

\* One worker, so that no two requests overlap, in an environment where the
\* rate-limit interval can be beyond the range of time.sleep and the clock
\* can show the same time at the start and at the end of run().
InitLateFaults ==
    /\ Started
    /\ num_threads <= 1
    /\ Constructed(UrlInputs)
    /\ proxy_cfg = [http |-> {}, socks5 |-> {}, type |-> ""]
    /\ setup_fault = FALSE
    /\ net = {"ok200", "http_fail", "network_error"}
    /\ waits = {"returns", "raises"}
    /\ total_times = {0, 1}

SpecLateFaults == InitLateFaults /\ [][Next]_vars

----------------------------------------------------------------------------
\* app.py start_test called a second time, for a test of its own; when the
\* clock still shows the second in which the first test was started, line
\* 164 draws the same test_id.  The lists of the second test are uploaded
\* through create_temp_file before it is started.

ListFiles == {"http_proxies.txt"}

\* What the second request and its thread leave alone.
first ==
    << urls, num_requests, num_threads, proxy_cfg, setup_fault, net, waits,
       total_times, managers, rpc, cancelled_seen, cpc, stats, tasks,
       collected, thread_errors, end_time >>

\* create_temp_file, lines 231-248: the client stores a list of the test it
\* is about to start in TEMP_DIR.
create_temp_file ==
    /\ rpc2 = "none"
    /\ \E filename \in ListFiles \ uploaded :
          /\ temp_files' = temp_files \cup {filename}
          /\ uploaded' = uploaded \cup {filename}
    /\ UNCHANGED << first, app, rpc2, cancelled_seen2, same_id, loaded2 >>

\* Lines 163-180: the entries of the test_id are assigned, which assigns
\* them anew when the test_id is the one of the first test, and a thread is
\* started.
StartTestAgain ==
    /\ rpc2 = "none"
    /\ same_id' \in BOOLEAN
    /\ test_cancel_flag' = IF same_id' THEN FALSE ELSE test_cancel_flag
    /\ rpc2' = "setup"
    /\ UNCHANGED << first, test_status, test_results,
                    cancelled_seen2, temp_files, uploaded, loaded2 >>

\* run_load_test in the thread of the second request, lines 53-102: the
\* configuration names the lists that were uploaded, and IPManager and
\* ProxyManager read each of them only if the file exists (load_tester.py
\* lines 89 and 119-125); the configuration is sound or makes the setup
\* raise.
SecondSetup ==
    /\ rpc2 = "setup"
    /\ loaded2' = uploaded \cap temp_files
    /\ rpc2' \in {"mark_running", "except"}
    /\ UNCHANGED << first, app, cancelled_seen2, same_id, temp_files,
                    uploaded >>

\* Lines 105-109.
SecondMarkRunning ==
    /\ rpc2 = "mark_running"
    /\ test_status' = IF same_id THEN "running" ELSE test_status
    /\ rpc2' = "run"
    /\ UNCHANGED << first, test_cancel_flag, test_results,
                    cancelled_seen2, same_id, temp_files, uploaded, loaded2 >>

\* Line 117: the run of the second thread's own LoadTester returns or
\* raises; it shares nothing with the first LoadTester.
SecondRun ==
    /\ rpc2 = "run"
    /\ rpc2' \in {"save", "except"}
    /\ UNCHANGED << first, app, cancelled_seen2, same_id, temp_files,
                    uploaded, loaded2 >>

\* Lines 120-132.
SecondSaveResults ==
    /\ rpc2 = "save"
    /\ test_results' = IF same_id THEN TRUE ELSE test_results
    /\ rpc2' = "final_check"
    /\ UNCHANGED << first, test_status, test_cancel_flag,
                    cancelled_seen2, same_id, temp_files, uploaded, loaded2 >>

\* Line 134: the flag of the second test's own test_id can have been set by
\* a cancel request for it.
SecondFinalCheck ==
    /\ rpc2 = "final_check"
    /\ cancelled_seen2' \in IF same_id THEN {test_cancel_flag} ELSE BOOLEAN
    /\ rpc2' = "final_write"
    /\ UNCHANGED << first, app, same_id, temp_files, uploaded, loaded2 >>

\* Lines 135-141.
SecondFinalWrite ==
    /\ rpc2 = "final_write"
    /\ test_status' = IF same_id THEN FinalStatus(cancelled_seen2)
                      ELSE test_status
    /\ rpc2' = "finally"
    /\ UNCHANGED << first, test_cancel_flag, test_results,
                    cancelled_seen2, same_id, temp_files, uploaded, loaded2 >>

\* Lines 143-147.
SecondExceptHandler ==
    /\ rpc2 = "except"
    /\ test_status' = IF same_id /\ test_status # "absent" THEN "failed"
                      ELSE test_status
    /\ rpc2' = "finally"
    /\ UNCHANGED << first, test_cancel_flag, test_results,
                    cancelled_seen2, same_id, temp_files, uploaded, loaded2 >>

\* Lines 148-153.
SecondFinally ==
    /\ rpc2 = "finally"
    /\ cleanup_temp_files
    /\ rpc2' = "exit"
    /\ UNCHANGED << first, app, cancelled_seen2, same_id, uploaded, loaded2 >>

NextRestart ==
    \/ Next
    \/ create_temp_file
    \/ StartTestAgain
    \/ SecondSetup
    \/ SecondMarkRunning
    \/ SecondRun
    \/ SecondSaveResults
    \/ SecondFinalCheck
    \/ SecondFinalWrite
    \/ SecondExceptHandler
    \/ SecondFinally

\* The test of InitAnswering and a client that may upload a list and start
\* a second test, within the same second or later.
SpecRestart == InitAnswering /\ [][NextRestart]_vars

----------------------------------------------------------------------------
\* What the claims speak about.

\* The requests against target t that have been counted at least once.
Recorded(t) ==
    Cardinality({ i \in DOMAIN tasks : tasks[i].url = t /\ tasks[i].cnt >= 1 })

\* success_count[t] + failure_count[t], as a reader of the dictionaries sees it.
Attempted(t) == Count("success_count", t) + Count("failure_count", t)

RECURSIVE TotalAttempted(_)
TotalAttempted(S) ==
    IF S = {} THEN 0
    ELSE LET t == CHOOSE x \in S : TRUE
         IN  Attempted(t) + TotalAttempted(S \ {t})

\* The requests against t for which a response with an HTTP status arrived.
Responded(t) ==
    Cardinality({ i \in DOMAIN tasks :
                    tasks[i].url = t /\ tasks[i].outcome \in {"ok200", "http_fail"} })

\* The requests against t that timed out on connect while using a proxy.
ProxiedTimeouts(t) ==
    Cardinality({ i \in DOMAIN tasks :
                    /\ tasks[i].url = t
                    /\ tasks[i].outcome = "connect_timeout"
                    /\ tasks[i].proxies # NoProxy })

Faulted == { i \in DOMAIN tasks : tasks[i].pc = "faulted" }

\* C1: for every target, success_count + failure_count equals the number of
\* requests against it whose outcome has been recorded, in every state of a
\* run with concurrent workers (no lost update, no double count).
C1_CountsEqualRecorded ==
    \A t \in Targets : Attempted(t) = Recorded(t)

\* C2: once run() has returned in a run with at least one target whose flag
\* is still false, exactly num_requests tasks were submitted and the counts
\* of all targets add up to num_requests.
C2_AllRequestsCounted ==
    (end_time /\ ~test_cancel_flag /\ urls # << >>)
        => (Len(tasks) = num_requests /\ TotalAttempted(Targets) = num_requests)

\* C3: no task is submitted when the cancellation flag is already true,
\* whenever the flag was set.
C3_NoSubmitAfterCancel ==
    \A i \in DOMAIN tasks : ~tasks[i].late

\* C4: once the flag is set while the status is running, the status never
\* becomes completed.
C4_CancelDominates ==
    [][(test_status = "running" /\ test_cancel_flag)
          => test_status' # "completed"]_vars

\* C5: every task submitted before the flag was set runs to completion: when
\* it has finished it has issued its request and recorded one outcome.
C5_SubmittedTasksRun ==
    \A i \in DOMAIN tasks :
        (~tasks[i].late /\ urls # << >> /\ tasks[i].pc \in Finished)
            => (tasks[i].outcome # "none" /\ tasks[i].cnt = 1)

\* C6: with no valid target no task is ever submitted and the test ends with
\* status failed.
C6_NoTargetFails ==
    (urls = << >> /\ ~setup_fault)
        => (tasks = << >> /\ (rpc = "exit" => test_status = "failed"))

C8_SamplesMatchResponses ==
    end_time => \A t \in Targets : Count("response_times", t) = Responded(t)

\* C9: when all requests are completed, every request that timed out on
\* connect has been counted as a failure, and proxy_timeouts of every target
\* counts exactly the connect timeouts of requests that used a proxy.
C9_ProxyTimeoutsCounted ==
    end_time =>
        /\ \A i \in DOMAIN tasks :
              tasks[i].outcome = "connect_timeout" => tasks[i].cnt >= 1
        /\ \A t \in Targets : Count("proxy_timeouts", t) = ProxiedTimeouts(t)

\* C10: a fault that leaves a task is logged when its future is collected,
\* and the test's thread still sees every submitted task finished, returns
\* from run() and reports completed or cancelled.
C10_EscapedFaultCaught ==
    /\ thread_errors = Cardinality(Faulted \cap 1..collected)
    /\ (rpc \in {"finally", "exit"} /\ Faulted # {})
          => /\ end_time
             /\ test_status \in {"completed", "cancelled"}
             /\ \A i \in DOMAIN tasks : tasks[i].pc \in Finished

C10_Witness ==
    /\ rpc = "exit"
    /\ test_status = "completed"
    /\ thread_errors = 1
    /\ \E i, j \in DOMAIN tasks :
          /\ tasks[i].pc = "faulted"
          /\ tasks[j].pc = "done" /\ tasks[j].cnt = 1

\* C11: end_time is set only when every submitted task has finished, with or
\* without a fault, and once it is set no statistics dictionary changes and
\* no task is submitted.
C11_EndAfterAllTasks ==
    /\ [](end_time => \A i \in DOMAIN tasks : tasks[i].pc \in Finished)
    /\ [][end_time => (stats' = stats /\ Len(tasks') = Len(tasks))]_vars

C11_Witness ==
    /\ end_time
    /\ Len(tasks) = 2
    /\ \E i, j \in DOMAIN tasks :
          /\ tasks[i].pc = "done" /\ tasks[i].cnt = 1
          /\ tasks[j].pc = "faulted"

\* C12: get_random_proxy called with scheme http (socks5) returns a
\* descriptor made of the prefix http:// (socks5h://) and an entry of the
\* HTTP (SOCKS5) pool when that pool is not empty, and no proxy when it is
\* empty, whatever the other pool holds; called without a scheme it returns a
\* descriptor of an entry of a pool that is not empty, and no proxy only when
\* both pools are empty.
C12_ProxyOfRequestedScheme ==
    ret.op = "get_random_proxy" =>
        LET http == { <<"http://", p>> : p \in proxy_cfg.http }
            socks5 == { <<"socks5h://", p>> : p \in proxy_cfg.socks5 }
        IN  /\ ret.arg = "http" =>
                  IF http # {} THEN ret.val \in http ELSE ret.val = NoProxy
            /\ ret.arg = "socks5" =>
                  IF socks5 # {} THEN ret.val \in socks5 ELSE ret.val = NoProxy
            /\ ret.arg = "" =>
                  IF http \cup socks5 # {} THEN ret.val \in http \cup socks5
                  ELSE ret.val = NoProxy

C12_Witness ==
    /\ ret.op = "get_random_proxy"
    /\ ret.arg = "http"
    /\ proxy_cfg.http = {}
    /\ proxy_cfg.socks5 # {}
    /\ ret.val = NoProxy

\* urlparse(url).hostname is empty: the network location of the url holds
\* nothing but a port.
EmptyHost(url) == SelectSeq(Netloc(url), LAMBDA part : part # ":80") = << >>

\* The candidates the URLManager was constructed from.
Given == {url_arg} \cup Range(FileCandidates(url_file))

\* C13: get_random_url returns a member of the accepted set, the one target
\* when exactly one was accepted and the no-target signal when none was; a
\* candidate without scheme that names a host is accepted with https://
\* before it, and no target with an empty host is ever returned.
C13_OnlyValidTargets ==
    /\ ret.op = "get_random_url" =>
          /\ urls # << >> => ret.val \in Range(urls)
          /\ Len(urls) = 1 => ret.val = urls[1]
          /\ urls = << >> => ret.val = NoUrl
          /\ ret.val # NoUrl => ~EmptyHost(ret.val)
    /\ \A c \in Given :
          (c # NoUrl /\ ~StartsWithScheme(c) /\ ~EmptyHost(<<"https://">> \o c))
              => (<<"https://">> \o c) \in Range(urls)

\* C14: has_multiple_urls returns true exactly when the accepted set holds
\* more than one distinct target.
C14_MultipleMeansDistinct ==
    ret.op = "has_multiple_urls" =>
        (ret.val <=> Cardinality(Range(urls)) > 1)

\* The requests against t that ended in one of the failure categories.
Failed(t) ==
    Cardinality({ i \in DOMAIN tasks :
                    tasks[i].url = t /\ tasks[i].outcome \notin {"none", "ok200"} })

\* C16: when all requests are completed, every request that ended in a
\* failure category has added one to failure_count and one message to errors
\* of its target and no success has added a message: for every target both
\* equal the number of its failed requests.
C16_ErrorsMatchFailures ==
    end_time =>
        \A t \in Targets :
            /\ Count("errors", t) = Count("failure_count", t)
            /\ Count("failure_count", t) = Failed(t)

\* The requests that were issued against t.
Issued(t) ==
    Cardinality({ i \in DOMAIN tasks : tasks[i].url = t /\ tasks[i].outcome # "none" })

\* C15: in the report of a run the standard deviation of a target with one
\* latency sample is 0, nothing is computed for a target without samples,
\* and print_results returns without raising whatever the counters are.
C15_ReportNeverRaises ==
    /\ [](end_time =>
            \A url \in DOMAIN stats["response_times"] :
                \A total_time \in total_times :
                    LET n == stats["response_times"][url]
                        report == TargetReport(n, total_time)
                    IN  /\ n = 1 => report.std_dev = "0"
                        /\ n = 0 => report.mean = "absent")
    /\ [][(rpc = "collect" /\ end_time') => rpc' = "save"]_vars

\* C17: a request that obtained a target counts one outcome: the task adds
\* one to exactly one of success_count and failure_count of its target, and
\* once the task is over the two counters of every target add up to the
\* number of requests issued against it, also when the wait after the
\* request raises.
C17_OneOutcomePerRequest ==
    /\ \A i \in DOMAIN tasks :
          tasks[i].pc \in {"done", "faulted"} => tasks[i].cnt = 1
    /\ (\A i \in DOMAIN tasks : tasks[i].pc \in Finished)
          => \A t \in Targets : Attempted(t) = Issued(t)

\* C18: the cancellation flag of a run starts false and, once true, stays
\* true for the rest of the run, whatever requests arrive.
C18_FlagMonotonic ==
    /\ (rpc = "setup" /\ rpc2 = "none") => ~test_cancel_flag
    /\ [][test_cancel_flag => test_cancel_flag']_vars

\* C19: a test whose thread has ended has a terminal status, also when the
\* setup raised before the status entry was written.
C19_TerminalStatusAtExit ==
    rpc = "exit" => test_status \in {"completed", "cancelled", "failed"}

\* C20: with at least one worker run() terminates: from its start on, all
\* submitted tasks eventually finish and end_time is set; a task that a
\* worker executes can always take its next step whatever the other tasks
\* do, and while tasks are queued some task of the pool can take a step.
C20_RunTerminates ==
    /\ [](\A i \in DOMAIN tasks :
            /\ tasks[i].pc \notin Finished \cup {"queued"} => ENABLED MakeRequest(i)
            /\ tasks[i].pc = "queued" => \E j \in DOMAIN tasks : ENABLED MakeRequest(j))
    /\ (rpc = "run_start" /\ num_threads >= 1)
          ~> (end_time /\ Len(tasks) <= num_requests
                /\ \A i \in DOMAIN tasks : tasks[i].pc \in Finished)

C20_Witness ==
    /\ end_time
    /\ num_threads = 1
    /\ Len(tasks) = 2
    /\ \A i \in DOMAIN tasks : tasks[i].pc = "done"

\* C21: a request is issued with proxy_timeout exactly when a proxy descriptor
\* was obtained for it and with the default timeout otherwise, also when the
\* proxy manager has proxies but returned none for the preferred scheme.
C21_ProxyTimeoutIffProxy ==
    \A i \in DOMAIN tasks :
        tasks[i].outcome \notin {"none", "invalid_url"} =>
            /\ tasks[i].proxies # NoProxy => tasks[i].timeout = "proxy_timeout"
            /\ tasks[i].proxies = NoProxy => tasks[i].timeout = "timeout"

\* A request was issued without a proxy by a tester whose manager has one.
C21_Witness ==
    \E i \in DOMAIN tasks :
        /\ HasProxies(proxy_cfg)
        /\ tasks[i].outcome = "ok200"
        /\ tasks[i].proxies = NoProxy
        /\ tasks[i].timeout = "timeout"

\* C22: every task that issued a request, whatever its outcome (a 200, another
\* status or a network-layer failure), has executed the rate-limit wait of
\* lines 329-332 when it returns.
C22_WaitAfterEveryRequest ==
    \A i \in DOMAIN tasks :
        (tasks[i].pc = "done" /\ tasks[i].outcome \notin {"none", "invalid_url"})
            => tasks[i].wait = "returned"

\* C23: a make_request call that obtains no target is a no-op: with an empty
\* accepted set no accumulator is ever created, no counter or sequence of
\* any target exists or changes, and no task issues a request.
C23_NoTargetIsNoOp ==
    urls = << >> =>
        /\ \A f \in Range(Fields) : DOMAIN stats[f] = {}
        /\ \A i \in DOMAIN tasks :
              /\ tasks[i].pc \in {"queued", "noop", "skipped"}
              /\ tasks[i].outcome = "none"
              /\ tasks[i].proxies = NoProxy

\* Every task of a run without target has returned from line 263 and the
\* run has ended.
C23_Witness ==
    /\ urls = << >>
    /\ end_time
    /\ Len(tasks) = MaxRequests
    /\ \A i \in DOMAIN tasks : tasks[i].pc = "noop"

\* C24: the accumulator of a target is created once: no step takes a counter
\* or a sequence length that is positive back to 0, and no worker records an
\* outcome for a target while one of its seven entries does not exist.
C24_AccumulatorCreatedOnce ==
    /\ [][\A f \in Range(Fields) : \A t \in DOMAIN stats[f] :
              stats[f][t] > 0 => (t \in DOMAIN stats'[f] /\ stats'[f][t] > 0)]_vars
    /\ [](\A i \in DOMAIN tasks :
              tasks[i].pc = "record" =>
                  \A f \in Range(Fields) : tasks[i].url \in DOMAIN stats[f])

\* C25: starting a test leaves the cancellation flag, the status and the
\* results of the test started earlier as they are, and a terminal status of
\* the earlier test never becomes "running" again.
C25_OwnStatePerTest ==
    [][/\ (rpc2 = "none" /\ rpc2' # "none") =>
              UNCHANGED << test_cancel_flag, test_status, test_results >>
       /\ (test_status \in {"completed", "cancelled", "failed"}) =>
              (test_status' # "running")]_vars

\* C26: once the managers of the second test are built, they have read
\* every list that was uploaded for it, whatever the first test did in
\* between.
C26_UploadedListsAreLoaded ==
    rpc2 \notin {"none", "setup"} => loaded2 = uploaded

====
